---- MODULE Spec2Model ----
(***************************************************************************)
(* Model of clean_data/pre_process_spark.py: the per-user pipeline         *)
(* parse_raw -> select -> mapRow -> format -> writeToFile, driven by main. *)
(*                                                                         *)
(* Text is a sequence of characters, a character a one-element string.     *)
(* An optional value (a JSON null, Python's None) is a sequence of length  *)
(* 0 (None) or 1 (Some(v)).  A raised exception is the record [exc |-> e]. *)
(***************************************************************************)
EXTENDS Naturals, Sequences, FiniteSets, TLC

VARIABLES
    pc,      \* position of the program (per specification)
    text,    \* a string handed to the sanitization of mapRow
    clean,   \* that string after the three replace calls
    row,     \* a row as mapRow receives it (after select)
    rec,     \* the pyspark Row that mapRow returns, or the exception it raises
    unit,    \* the serialized unit that format produces for rec
    args,    \* the parsed command line (format, documentformat, parallelized)
    df,      \* a data frame handed to select, then what select returns
    input,   \* the input directory: user -> that user's JSON posts
    todo,    \* users that main's map has not reached yet, in listdir order
    fs,      \* the output tree: the root's kind and each user's output file
    calls    \* history: how often cleanOutputDir and writeToFile were called

vars == <<pc, text, clean, row, rec, unit, args, df, input, todo, fs, calls>>

-----------------------------------------------------------------------------
(* Bounds of the model *)

MaxLen == 3      \* longest string handed to the sanitization
MaxItems == 1    \* longest comments / edges / tags / urls list of a row
MaxPosts == 2    \* most posts of one user
MaxUsers == 2    \* most users in the input directory

-----------------------------------------------------------------------------
(* Characters and optional values *)

NL == "\n"
TAB == "\t"
COMMA == ","
SP == " "
NonAscii == "U+E9"     \* a character outside ASCII (two bytes in UTF-8)

Chars == {NL, TAB, COMMA, SP, "a"}

None == <<>>
Some(v) == <<v>>
Opt(S) == {None} \cup {Some(v) : v \in S}

Raise(e) == [exc |-> e]
Raised(r) == "exc" \in DOMAIN r

Strings(n) == UNION {[1..k -> Chars] : k \in 0..n}

-----------------------------------------------------------------------------
(* str.replace, join, encode *)

RECURSIVE replace(_, _, _)
replace(s, old, new) ==
    IF s = <<>> THEN <<>>
    ELSE (IF Head(s) = old THEN new ELSE <<Head(s)>>) \o replace(Tail(s), old, new)

\* sep.join(list)
RECURSIVE join(_, _)
join(sep, list) ==
    IF list = <<>> THEN <<>>
    ELSE IF Len(list) = 1 THEN list[1]
    ELSE list[1] \o sep \o join(sep, Tail(list))

\* Faulty variant of sanitize: the comma is kept
sanitizeKeepComma(s) == replace(replace(s, NL, <<SP>>), TAB, <<SP>>)

\* The three replace calls mapRow applies to each of its strings, in the
\* code's order: newline, tab, comma, each by one space.
sanitize(s) == replace(replace(replace(s, NL, <<SP>>), TAB, <<SP>>), COMMA, <<SP>>)

\* unicode.encode("utf-8", errors='ignore') under Python 2: every character
\* encodes (nothing is dropped); a non-ASCII character becomes two bytes.
encodeChar(c) == IF c = NonAscii THEN <<"xC3", "xA9">> ELSE <<c>>

RECURSIVE encode(_)
encode(s) == IF s = <<>> THEN <<>> ELSE encodeChar(Head(s)) \o encode(Tail(s))

\* bytes.decode("utf-8"): the inverse of encode, applied where a Python 2 str
\* enters a data frame (toDF) as a string column.
RECURSIVE decode(_)
decode(b) ==
    IF b = <<>> THEN <<>>
    ELSE IF Len(b) >= 2 /\ b[1] = "xC3" /\ b[2] = "xA9"
         THEN <<NonAscii>> \o decode(Tail(Tail(b)))
         ELSE <<Head(b)>> \o decode(Tail(b))

-----------------------------------------------------------------------------
(* mapRow *)

NoRow == [none |-> TRUE]
NoRec == [none |-> TRUE]
NoUnit == [none |-> TRUE]

\* Texts found in the fields of a post: with a comma, with a tab, a newline
\* and a non-ASCII character, and with neither.
Texts == {<<"a">>, <<"b", COMMA>>, <<TAB, NonAscii, NL>>}

Lists(n) == UNION {[1..k -> Texts] : k \in 0..n}

\* A caption value: the attributes the Row exposes and their values (an
\* attribute of the merged schema that the post lacks is null).
Captions(n) ==
    {[attrs |-> a, edges |-> e, text |-> t] :
        a \in SUBSET {"edges", "text"}, e \in Opt(Lists(n)), t \in Opt(Texts)}

WellFormedCaption(c) ==
    /\ ("edges" \notin c.attrs => c.edges = None)
    /\ ("text" \notin c.attrs => c.text = None)

\* The rows mapRow can be handed: every column of the selected data frame, each
\* null or a value.
Rows(n) ==
    {[comments |-> c, caption |-> cap, tags |-> t, urls |-> u] :
        c \in Opt({[data |-> l] : l \in Lists(n)}),
        cap \in Opt({x \in Captions(n) : WellFormedCaption(x)}),
        t \in Opt(Lists(n)),
        u \in Opt(Lists(n))}

hasattr(captionRow, name) == captionRow # None /\ name \in captionRow[1].attrs

Unbound == [bound |-> FALSE, val |-> None]
Bound(v) == [bound |-> TRUE, val |-> v]

\* lines 42-46: the binding of textCaptions after the two if statements (the
\* edges of the first are known to be a list here)
captionText(captionRow) ==
    LET afterEdges == IF hasattr(captionRow, "edges")
                      THEN Bound(Some(join(<<SP>>, captionRow[1].edges[1])))
                      ELSE Unbound
    IN IF hasattr(captionRow, "text") THEN Bound(captionRow[1].text) ELSE afterEdges

\* lines 47-50
tagsText(tags) == IF tags # None THEN join(<<SP>>, tags[1]) ELSE <<>>

mapRow(r) ==
    LET commentsRow == r.comments
        captionRow == r.caption
    IN
    IF commentsRow = None THEN Raise("AttributeError")            \* line 40
    ELSE
    LET textComments == join(<<SP>>, commentsRow[1].data)
        textCaptions == captionText(captionRow)
        tags == tagsText(r.tags)
    IN
    IF hasattr(captionRow, "edges") /\ captionRow[1].edges = None
    THEN Raise("TypeError")                                         \* line 44
    ELSE IF ~textCaptions.bound THEN Raise("UnboundLocalError")     \* line 54
    ELSE IF textCaptions.val = None THEN Raise("AttributeError")    \* line 54
    ELSE IF r.urls = None THEN Raise("TypeError")                   \* line 60
    ELSE IF r.urls[1] = <<>> THEN Raise("IndexError")               \* line 60
    ELSE [comments |-> sanitize(textComments),
          caption |-> sanitize(textCaptions.val[1]),
          tags |-> sanitize(tags),
          id |-> r.urls[1][1]]

\* The fields of the Row of line 61 in the order iteration yields them:
\* pyspark sorts the keyword arguments of Row by name.
RowValues(r) == <<r.caption, r.comments, r.id, r.tags>>

-----------------------------------------------------------------------------
(* format *)

Formats == {"csv", "tsv", "json"}

SepOf(fmt) == IF fmt = "csv" THEN <<COMMA>> ELSE <<TAB>>

encodeAll(list) == [i \in DOMAIN list |-> encode(list[i])]

\* Faulty variant of mapDocFormat: the csv and tsv fields glued by the empty string
mapDocFormatGlued(r, fmt) ==
    IF fmt = "json"
    THEN [json |-> [doc |-> decode(encode(r.id)),
                    text |-> decode(join(<<>>, encodeAll(RowValues(r))))]]
    ELSE [line |-> encode(r.id) \o SepOf(fmt)
                   \o join(<<>>, encodeAll(<<r.comments, r.caption, r.tags>>))]

\* lines 100-108, and toDF().toJSON() of line 113 for json
mapDocFormat(r, fmt) ==
    IF fmt = "csv"
    THEN [line |-> encode(r.id) \o <<COMMA>>
                   \o join(<<SP>>, encodeAll(<<r.comments, r.caption, r.tags>>))]
    ELSE IF fmt = "tsv"
    THEN [line |-> encode(r.id) \o <<TAB>>
                   \o join(<<SP>>, encodeAll(<<r.comments, r.caption, r.tags>>))]
    ELSE [json |-> [doc |-> decode(encode(r.id)),
                    text |-> decode(join(<<>>, encodeAll(RowValues(r))))]]

\* lines 116-122: the unit of one row in column mode
mapColFormat(r, fmt) ==
    IF fmt = "csv"
    THEN [line |-> join(<<COMMA>>, encodeAll(<<r.id, r.comments, r.caption, r.tags>>))]
    ELSE IF fmt = "tsv"
    THEN [line |-> join(<<TAB>>, encodeAll(<<r.id, r.comments, r.caption, r.tags>>))]
    ELSE [json |-> r]

\* format(df, format, features): one unit per row
format(rows, fmt, features) ==
    [i \in DOMAIN rows |->
        IF features THEN mapDocFormat(rows[i], fmt) ELSE mapColFormat(rows[i], fmt)]

-----------------------------------------------------------------------------
(* select *)

commentsCols == <<"comments">>
captionCols == <<"edge_media_to_caption", "caption">>
tagsCols == <<"tags">>
idCol == "id"
urlsCol == "urls"

\* Column names a user's raw data can carry ("likes" stands for any column
\* the pipeline does not use).
AllCols == {"comments", "edge_media_to_caption", "caption", "tags", "id", "urls", "likes"}

\* filter(lambda c: c in df.columns, cols)
present(cols, d) == SelectSeq(cols, LAMBDA c : c \in d.columns)

\* Faulty variant of select: the last alias among the columns wins
selectLastAlias(d) ==
    LET commentCol == present(commentsCols, d)
        captionCol == present(captionCols, d)
        tagCol == present(tagsCols, d)
    IN IF commentCol = <<>> \/ captionCol = <<>> \/ tagCol = <<>>
       THEN Raise("IndexError")
       ELSE IF ~({idCol, urlsCol} \subseteq d.columns)
       THEN Raise("AnalysisException")
       ELSE [columns |-> {"comments", "caption", "tags", "id", "urls"},
             rows |-> [i \in DOMAIN d.rows |->
                        [comments |-> d.rows[i][commentCol[1]],
                         caption |-> d.rows[i][captionCol[Len(captionCol)]],
                         tags |-> d.rows[i][tagCol[1]],
                         id |-> d.rows[i][idCol],
                         urls |-> d.rows[i][urlsCol]]]]

\* lines 125-137: [0] of an empty filter result raises IndexError (lines
\* 132-134); df.select of a column the data lacks fails in the engine (135)
select(d) ==
    LET commentCol == present(commentsCols, d)
        captionCol == present(captionCols, d)
        tagCol == present(tagsCols, d)
    IN IF commentCol = <<>> \/ captionCol = <<>> \/ tagCol = <<>>
       THEN Raise("IndexError")
       ELSE IF ~({idCol, urlsCol} \subseteq d.columns)
       THEN Raise("AnalysisException")
       ELSE [columns |-> {"comments", "caption", "tags", "id", "urls"},
             rows |-> [i \in DOMAIN d.rows |->
                        [comments |-> d.rows[i][commentCol[1]],
                         caption |-> d.rows[i][captionCol[1]],
                         tags |-> d.rows[i][tagCol[1]],
                         id |-> d.rows[i][idCol],
                         urls |-> d.rows[i][urlsCol]]]]

-----------------------------------------------------------------------------
(* Idle values of the variables a specification does not use *)

NoArgs == [none |-> TRUE]
NoDf == [none |-> TRUE]
NoFs == [none |-> TRUE]
NoCalls == [clean |-> 0, write |-> 0]

IdleSan == text = <<>> /\ clean = <<>>
IdleRow == row = NoRow /\ rec = NoRec /\ unit = NoUnit
IdleMain == input = <<>> /\ todo = <<>> /\ fs = NoFs /\ calls = NoCalls

-----------------------------------------------------------------------------
(* SpecSan: the sanitization of mapRow applied to every short string *)

InitSan ==
    /\ pc = "text"
    /\ text \in Strings(MaxLen)
    /\ clean = <<>>
    /\ IdleRow /\ IdleMain /\ args = NoArgs /\ df = NoDf

Sanitize ==
    /\ pc = "text"
    /\ clean' = sanitize(text)
    /\ pc' = "clean"
    /\ UNCHANGED <<text, row, rec, unit, args, df, input, todo, fs, calls>>

NextSan == Sanitize

SpecSan == InitSan /\ [][NextSan]_vars

-----------------------------------------------------------------------------
(* SpecRow: mapRow on every row of the bounded set, then format on the result *)

InitRow ==
    /\ pc = "row"
    /\ row \in Rows(MaxItems)
    /\ rec = NoRec
    /\ unit = NoUnit
    /\ args = NoArgs
    /\ IdleSan /\ IdleMain /\ df = NoDf

MapRow ==
    /\ pc = "row"
    /\ rec' = mapRow(row)
    /\ pc' = "mapped"
    /\ UNCHANGED <<text, clean, row, unit, args, df, input, todo, fs, calls>>

\* format on the data frame of the one record, under any command line; the
\* raw row is gone once the data frame of records exists
FormatRow ==
    /\ pc = "mapped"
    /\ ~Raised(rec)
    /\ \E f \in Formats, d \in BOOLEAN :
        /\ args' = [format |-> f, documentformat |-> d]
        /\ unit' = format(<<rec>>, f, d)[1]
    /\ row' = NoRow
    /\ pc' = "formatted"
    /\ UNCHANGED <<text, clean, rec, df, input, todo, fs, calls>>

NextRow == MapRow \/ FormatRow

SpecRow == InitRow /\ [][NextRow]_vars

-----------------------------------------------------------------------------
(* SpecSel: select on a data frame with every set of column names *)

\* One row whose value in each column is the column's name, so that the
\* result shows which column each canonical name was taken from.
InitSel ==
    /\ pc = "raw"
    /\ \E cols \in SUBSET AllCols :
        df = [columns |-> cols, rows |-> <<[c \in cols |-> c]>>]
    /\ IdleSan /\ IdleRow /\ IdleMain /\ args = NoArgs

Select ==
    /\ pc = "raw"
    /\ df' = select(df)
    /\ pc' = "selected"
    /\ UNCHANGED <<text, clean, row, rec, unit, args, input, todo, fs, calls>>

NextSel == Select

SpecSel == InitSel /\ [][NextSel]_vars

-----------------------------------------------------------------------------
(* parse_raw: the engine's reading of one user's JSON posts *)

\* A post is a JSON object: a record of the keys it carries, each null (None)
\* or a value.  Every post of the model carries comments and id.
PostOf(capPart, tagPart, urls) ==
    [comments |-> Some([data |-> <<<<"a">>>>]), id |-> Some(<<"a">>), urls |-> urls]
        @@ capPart @@ tagPart

TextShape == [attrs |-> {"text"}, edges |-> None, text |-> Some(<<"b", COMMA>>)]
EdgeShape == [attrs |-> {"edges"}, edges |-> Some(<<<<"a">>, <<"b", COMMA>>>>), text |-> None]

CaptionParts ==
    {<<>>, [caption |-> None], [caption |-> Some(TextShape)],
     [caption |-> Some(EdgeShape)], [edge_media_to_caption |-> Some(EdgeShape)]}

TagParts == {<<>>, [tags |-> None], [tags |-> Some(<<<<TAB, NonAscii, NL>>>>)]}

UrlLists == {Some(<<>>), Some(<<<<"a">>>>)}

PostKinds == {PostOf(c, t, u) : c \in CaptionParts, t \in TagParts, u \in UrlLists}

PostSeqs(n) == UNION {[1..k -> PostKinds] : k \in 0..n}

\* The attributes of a struct column: the engine merges the keys of that
\* column's objects over all posts of the user.
mergedAttrs(posts, col) ==
    UNION {posts[i][col][1].attrs :
              i \in {j \in DOMAIN posts : col \in DOMAIN posts[j] /\ posts[j][col] # None}}

\* lines 30-33: sqlContext.read.json.  The columns are the keys found in any
\* post; a post lacking a column has null there; zero posts give zero columns.
parse_raw(posts) ==
    LET cols == UNION {DOMAIN posts[i] : i \in DOMAIN posts}
        cell(i, c) ==
            IF c \notin DOMAIN posts[i] THEN None
            ELSE IF c \in {"caption", "edge_media_to_caption"} /\ posts[i][c] # None
            THEN Some([attrs |-> mergedAttrs(posts, c),
                       edges |-> posts[i][c][1].edges,
                       text |-> posts[i][c][1].text])
            ELSE posts[i][c]
    IN [columns |-> cols, rows |-> [i \in DOMAIN posts |-> [c \in cols |-> cell(i, c)]]]

\* select followed by df.rdd.map(mapRow): each row's record or exception
\* (lazy: nothing is raised before an action of the engine runs the map)
mapped(d) == [i \in DOMAIN d.rows |-> mapRow(d.rows[i])]

firstRaised(results) ==
    LET bad == {i \in DOMAIN results : Raised(results[i])}
    IN results[CHOOSE i \in bad : \A j \in bad : i <= j]

anyRaised(results) == \E i \in DOMAIN results : Raised(results[i])

-----------------------------------------------------------------------------
(* SpecUser: one user's posts through parse_raw, select and mapRow *)

InitUser ==
    /\ pc = "posts"
    /\ \E posts \in PostSeqs(MaxPosts) : input = <<posts>>
    /\ df = NoDf
    /\ IdleSan /\ IdleRow /\ args = NoArgs
    /\ todo = <<>> /\ fs = NoFs /\ calls = NoCalls

ParseRaw ==
    /\ pc = "posts"
    /\ df' = parse_raw(input[1])
    /\ pc' = "raw"
    /\ UNCHANGED <<text, clean, row, rec, unit, args, input, todo, fs, calls>>

SelectUser ==
    /\ pc = "raw"
    /\ df' = select(df)
    /\ pc' = IF Raised(select(df)) THEN "failed" ELSE "selected"
    /\ UNCHANGED <<text, clean, row, rec, unit, args, input, todo, fs, calls>>

\* df.rdd.map(mapRow).toDF() run to the end: toDF refuses an empty RDD
MapRows ==
    /\ pc = "selected"
    /\ LET results == mapped(df)
       IN IF results = <<>> THEN df' = Raise("ValueError") /\ pc' = "failed"
          ELSE IF anyRaised(results) THEN df' = firstRaised(results) /\ pc' = "failed"
          ELSE /\ df' = [columns |-> {"caption", "comments", "id", "tags"}, rows |-> results]
               /\ pc' = "mapped"
    /\ UNCHANGED <<text, clean, row, rec, unit, args, input, todo, fs, calls>>

NextUser == ParseRaw \/ SelectUser \/ MapRows

SpecUser == InitUser /\ [][NextUser]_vars

-----------------------------------------------------------------------------
(* The output tree, cleanOutputDir, writeToFile, parseUser *)

Users == 1..MaxUsers

NoFile == [kind |-> "none"]
Stale == [kind |-> "stale"]      \* left by an earlier run

EmptyTree(rootKind) == [root |-> rootKind, files |-> [u \in Users |-> NoFile]]

\* The output root before main runs: missing, a directory holding the output
\* of an earlier run, or a regular file of that name.
InitialTrees ==
    {EmptyTree("absent"), EmptyTree("file"),
     [root |-> "dir", files |-> [u \in Users |-> Stale]]}

\* Faulty variant of cleanOutputDir: the tree is left as it is
cleanOutputDirSkip(tree) == tree

\* lines 150-153: rmtree when the root exists and is a directory; nothing is
\* created
cleanOutputDir(tree) ==
    IF tree.root = "dir" THEN EmptyTree("absent") ELSE tree

Returned(tree, n) == [tree |-> tree, writes |-> n]
Failed(e, tree, n) == [exc |-> e, tree |-> tree, writes |-> n]

withFile(tree, u, file) == [root |-> "dir", files |-> [tree.files EXCEPT ![u] = file]]

\* Faulty variant of writeToFile: the output file is opened before the collect
writeToFileOpenFirst(rdd, parallelized, tree, u, fmt) ==
    IF tree.root = "file" THEN {Failed("OSError", tree, 1)}
    ELSE IF anyRaised(rdd)
    THEN {Failed(firstRaised(rdd).exc,
                 withFile(tree, u, [kind |-> "file", ext |-> fmt, units |-> <<>>]), 1)}
    ELSE {Returned(withFile(tree, u, [kind |-> "file", ext |-> fmt, units |-> rdd]), 1)}

\* lines 79-94.  rdd holds, per row, the unit or the exception that computing
\* it raises.  The set of possible outcomes: a failed saveAsTextFile may or
\* may not leave the directory it set up.
writeToFile(rdd, parallelized, tree, u, fmt) ==
    IF parallelized
    THEN IF tree.root = "file" THEN {Failed("Py4JJavaError", tree, 1)}
         ELSE IF anyRaised(rdd)
         THEN {Failed("Py4JJavaError", tree, 1),
               Failed("Py4JJavaError", withFile(tree, u, [kind |-> "aborted", ext |-> fmt]), 1)}
         ELSE {Returned(withFile(tree, u, [kind |-> "parts", ext |-> fmt, units |-> rdd]), 1)}
    ELSE IF anyRaised(rdd) THEN {Failed(firstRaised(rdd).exc, tree, 1)}      \* line 86
         ELSE IF tree.root = "file" THEN {Failed("OSError", tree, 1)}        \* line 88
         ELSE {Returned(withFile(tree, u, [kind |-> "file", ext |-> fmt, units |-> rdd]), 1)}

\* lines 140-147: the outcomes of parseUser for user u with these posts
parseUser(u, a, posts, tree) ==
    LET sel == select(parse_raw(posts))
    IN IF Raised(sel) THEN {Failed(sel.exc, tree, 0)}                         \* line 144
       ELSE LET results == mapped(sel)
                rdd == [i \in DOMAIN results |->
                          IF Raised(results[i]) THEN results[i]
                          ELSE format(<<results[i]>>, a.format, a.documentformat)[1]]
            IN IF results = <<>> THEN {Failed("ValueError", tree, 0)}         \* line 145
               ELSE IF Raised(results[1]) THEN {Failed(results[1].exc, tree, 0)}
               ELSE writeToFile(rdd, a.parallelized, tree, u, a.format)

-----------------------------------------------------------------------------
(* SpecMain: main over an input directory of at most MaxUsers users *)

Healthy == PostOf([caption |-> Some(TextShape)], [tags |-> Some(<<<<"a">>>>)], Some(<<<<"a">>>>))
NoTags == PostOf([caption |-> Some(TextShape)], <<>>, Some(<<<<"a">>>>))
NullCaption == PostOf([caption |-> None], [tags |-> Some(<<<<"a">>>>)], Some(<<<<"a">>>>))
NoCaption == PostOf(<<>>, [tags |-> Some(<<<<"a">>>>)], Some(<<<<"a">>>>))

\* What one user's input file can hold
UserSamples ==
    {<<>>, <<Healthy>>, <<Healthy, NoTags>>, <<NoTags>>, <<NoCaption>>,
     <<NullCaption>>, <<Healthy, NullCaption>>}

Orders(S) == {p \in [1..Cardinality(S) -> S] : \A x \in S : \E i \in DOMAIN p : p[i] = x}

InitMain ==
    /\ pc = "start"
    /\ args \in [format : Formats, documentformat : BOOLEAN, parallelized : BOOLEAN]
    /\ input \in UNION {[1..n -> UserSamples] : n \in 0..MaxUsers}
    /\ todo = <<>>
    /\ fs \in InitialTrees
    /\ calls = NoCalls
    /\ IdleSan /\ IdleRow /\ df = NoDf

\* line 164
CleanOutputDir ==
    /\ pc = "start"
    /\ fs' = cleanOutputDir(fs)
    /\ calls' = [calls EXCEPT !.clean = @ + 1]
    /\ pc' = "listdir"
    /\ UNCHANGED <<text, clean, row, rec, unit, args, df, input, todo>>

\* line 165: os.listdir returns the users in arbitrary order
ListDir ==
    /\ pc = "listdir"
    /\ todo' \in Orders(DOMAIN input)
    /\ pc' = "map"
    /\ UNCHANGED <<text, clean, row, rec, unit, args, df, input, fs, calls>>

\* line 166: one call of the lambda; an exception leaves map and main
ParseUser ==
    /\ pc = "map"
    /\ todo # <<>>
    /\ \E o \in parseUser(Head(todo), args, input[Head(todo)], fs) :
        /\ fs' = o.tree
        /\ calls' = [calls EXCEPT !.write = @ + o.writes]
        /\ IF Raised(o) THEN pc' = "crashed" /\ todo' = todo
                        ELSE pc' = "map" /\ todo' = Tail(todo)
    /\ UNCHANGED <<text, clean, row, rec, unit, args, df, input>>

Return ==
    /\ pc = "map"
    /\ todo = <<>>
    /\ pc' = "done"
    /\ UNCHANGED <<text, clean, row, rec, unit, args, df, input, todo, fs, calls>>

NextMain == CleanOutputDir \/ ListDir \/ ParseUser \/ Return

SpecMain == InitMain /\ [][NextMain]_vars

-----------------------------------------------------------------------------
(* Properties of the sanitization (SpecSan) *)

Delimiters == {NL, TAB, COMMA}

\* C1, as stated: the sanitized text holds no newline, tab or comma and is the
\* input with every newline, tab and comma deleted.
C1_SanitizeDeletes ==
    pc = "clean" =>
        /\ \A i \in DOMAIN clean : clean[i] \notin Delimiters
        /\ clean = SelectSeq(text, LAMBDA c : c \notin Delimiters)

\* C1, amended: the sanitized text holds no newline, tab or comma and is the
\* input with every newline, tab and comma replaced by one space: same
\* length, every other character kept in its place.
C1_SanitizeSubstitutes ==
    pc = "clean" =>
        /\ \A i \in DOMAIN clean : clean[i] \notin Delimiters
        /\ Len(clean) = Len(text)
        /\ \A i \in DOMAIN text :
            clean[i] = IF text[i] \in Delimiters THEN SP ELSE text[i]

C1_Witness ==
    /\ pc = "clean"
    /\ Len(text) >= 2
    /\ \E i, j \in DOMAIN text : text[i] = COMMA /\ text[j] \notin Delimiters \cup {SP}

-----------------------------------------------------------------------------
(* Properties of mapRow and format (SpecRow) *)

ExposesEdges(c) == c # None /\ "edges" \in c[1].attrs /\ c[1].edges # None
ExposesText(c) == c # None /\ "text" \in c[1].attrs /\ c[1].text # None

\* C4, as stated: for a post whose other fields normalize, the caption is the
\* edges' texts joined by single spaces whenever the caption exposes an edge
\* list (also when it exposes a text too), else the direct text when it
\* exposes one, and mapRow fails when it exposes neither.
C4_CaptionEdgesFirst ==
    (pc = "mapped" /\ row.comments # None /\ row.urls # None /\ row.urls # Some(<<>>)) =>
        IF ExposesEdges(row.caption)
        THEN ~Raised(rec) /\ rec.caption = sanitize(join(<<SP>>, row.caption[1].edges[1]))
        ELSE IF ExposesText(row.caption)
        THEN ~Raised(rec) /\ rec.caption = sanitize(row.caption[1].text[1])
        ELSE Raised(rec)

RECURSIVE Split(_, _)
Split(s, sep) ==
    LET hits == {i \in DOMAIN s : s[i] = sep}
    IN IF hits = {} THEN <<s>>
       ELSE LET i == CHOOSE k \in hits : \A j \in hits : k <= j
            IN <<SubSeq(s, 1, i - 1)>> \o Split(SubSeq(s, i + 1, Len(s)), sep)

\* C5, as stated: in column mode the csv or tsv line of a record is id,
\* comments, caption, tags joined by the separator, no field holds the
\* separator, and splitting the line on the separator gives the four fields.
C5_SplitRestoresFields ==
    (pc = "formatted" /\ args.format \in {"csv", "tsv"} /\ ~args.documentformat) =>
        LET sep == SepOf(args.format)
            fields == <<encode(rec.id), encode(rec.comments),
                        encode(rec.caption), encode(rec.tags)>>
        IN /\ unit.line = fields[1] \o sep \o fields[2] \o sep \o fields[3] \o sep \o fields[4]
           /\ \A k \in 1..4 : \A i \in DOMAIN fields[k] : fields[k][i] # sep[1]
           /\ Split(unit.line, sep[1]) = fields

-----------------------------------------------------------------------------
(* Properties of select (SpecSel) *)

HasAlias(aliases, cols) == \E i \in DOMAIN aliases : aliases[i] \in cols

FirstAlias(aliases, cols) ==
    aliases[CHOOSE i \in DOMAIN aliases :
                /\ aliases[i] \in cols
                /\ \A j \in 1..(i - 1) : aliases[j] \notin cols]

AllResolve(cols) ==
    /\ HasAlias(commentsCols, cols)
    /\ HasAlias(captionCols, cols)
    /\ HasAlias(tagsCols, cols)

\* What select returns when it resolves: the five canonical columns, comments,
\* caption and tags taken from the first alias among the columns.  (The rows
\* of SpecSel hold the name of the column each value comes from.)
ResolvedFrom(cols, d) ==
    /\ ~Raised(d)
    /\ d.columns = {"comments", "caption", "tags", "id", "urls"}
    /\ d.rows[1].comments = FirstAlias(commentsCols, cols)
    /\ d.rows[1].caption = FirstAlias(captionCols, cols)
    /\ d.rows[1].tags = FirstAlias(tagsCols, cols)

\* C8, as stated: for every set of columns select exposes each logical field
\* under its canonical name from the first alias among the columns, and fails,
\* returning no data frame, if some logical field has no alias among them.
C8_SelectResolvesEverySet ==
    [][pc = "raw" =>
        IF AllResolve(df.columns) THEN ResolvedFrom(df.columns, df')
        ELSE Raised(df') /\ "rows" \notin DOMAIN df']_vars

\* C8, amended: the same for every set of columns that holds id and urls;
\* select fails if some logical field has no alias among the columns or if
\* id or urls is not among them.
C8_SelectResolvesWithIdUrls ==
    [][pc = "raw" =>
        IF AllResolve(df.columns) /\ {"id", "urls"} \subseteq df.columns
        THEN ResolvedFrom(df.columns, df')
        ELSE Raised(df') /\ "rows" \notin DOMAIN df']_vars

C8_Witness ==
    /\ pc = "selected"
    /\ ~Raised(df)
    /\ df.rows[1].caption = "edge_media_to_caption"

-----------------------------------------------------------------------------
(* Properties of one user's pipeline (SpecUser) *)

TagsMissing(post) == "tags" \notin DOMAIN post \/ post.tags = None

\* The posts with an empty tags list put wherever tags are absent or null
WithTags(posts) ==
    [i \in DOMAIN posts |->
        IF TagsMissing(posts[i])
        THEN [tags |-> Some(<<>>)] @@ posts[i]
        ELSE posts[i]]

Normalizes(posts) ==
    /\ posts # <<>>
    /\ ~Raised(select(parse_raw(posts)))
    /\ ~anyRaised(mapped(select(parse_raw(posts))))

\* C7, as stated: every post whose tags are absent or null comes out of select
\* and mapRow as a record with tags = "", also when no post of the user has a
\* tags field.  (Stated for the users whose posts normalize once tags are
\* supplied, so that only the tags decide.)
C7_MissingTagsGiveEmpty ==
    (pc \in {"failed", "selected", "mapped"} /\ Normalizes(WithTags(input[1]))) =>
        /\ pc # "failed"
        /\ pc = "mapped" =>
            \A i \in DOMAIN input[1] :
                TagsMissing(input[1][i]) => df.rows[i].tags = <<>>

-----------------------------------------------------------------------------
(* Properties of main (SpecMain) *)

Range(f) == {f[i] : i \in DOMAIN f}

\* The user whose parseUser raised
FailedUser == Head(todo)

\* Schema resolution fails: the user has posts and some logical field has no
\* alias among their columns.
SchemaError(posts) == posts # <<>> /\ ~AllResolve(parse_raw(posts).columns)

\* The pipeline of these posts fails before anything is written
PipelineFails(posts) ==
    \/ Raised(select(parse_raw(posts)))
    \/ anyRaised(mapped(select(parse_raw(posts))))

\* The output file parseUser writes for user u when run on its own
OwnOutput(u) ==
    (CHOOSE o \in parseUser(u, args, input[u], EmptyTree("absent")) : TRUE).tree.files[u]

\* C2, as stated: when parseUser fails for one user with a schema resolution
\* error, every other user of the list, before or after it, ends with its
\* output file correctly written.
C2_OthersWrittenAfterSchemaError ==
    (pc = "crashed" /\ SchemaError(input[FailedUser]) /\ fs.root # "file") =>
        \A v \in DOMAIN input \ {FailedUser} :
            ~PipelineFails(input[v]) => fs.files[v] = OwnOutput(v)

\* C3: in unpartitioned mode, once the output root is cleaned, a user whose
\* schema resolution or whose normalization of any post fails has no output
\* file, neither empty nor partial, at any time: the units are collected
\* before the directory is made and the file opened.
C3_NoFileForFailedUser ==
    (pc # "start" /\ ~args.parallelized) =>
        \A u \in DOMAIN input : PipelineFails(input[u]) => fs.files[u] = NoFile

\* a user failed on its second post, in writeToFile, after another was written
C3_Witness ==
    /\ pc = "crashed"
    /\ ~args.parallelized
    /\ input[FailedUser] = <<Healthy, NullCaption>>
    /\ calls.write = 2
    /\ \E v \in DOMAIN input : fs.files[v].kind = "file"

\* C9, as stated: a user with zero posts is processed without error and its
\* output artifact then exists and is empty.
C9_ZeroPostsEmptyArtifact ==
    \A u \in DOMAIN input :
        (input[u] = <<>> /\ fs.root # "file") =>
            /\ ~(pc = "crashed" /\ FailedUser = u)
            /\ (pc \in {"map", "done"} /\ u \notin Range(todo)) =>
                   /\ fs.files[u].kind \in {"file", "parts"}
                   /\ fs.files[u].units = <<>>

NoneLeft == \A u \in Users : fs.files[u] # Stale

\* C10, as stated: the output root is deleted and recreated exactly once,
\* before any writeToFile and never again, and once that is done the root
\* exists and is empty.  (Stated for the runs that do not find a regular
\* file in the root's place.)
C10_RootRecreatedOnce ==
    /\ calls.clean <= 1
    /\ (pc # "start" => calls.clean = 1)
    /\ (pc = "start" => calls.write = 0)
    /\ (pc # "start" /\ calls.write = 0 /\ fs.root # "file") => fs = EmptyTree("dir")

\* C10, amended: cleanOutputDir runs exactly once, before any writeToFile and
\* never again; it deletes the output root when that is a directory and does
\* not recreate it, so once it is done nothing of an earlier run is left and,
\* until the first writeToFile, the root is not a directory and holds nothing.
C10_RootRemovedOnce ==
    /\ calls.clean <= 1
    /\ (pc # "start" => calls.clean = 1)
    /\ (pc = "start" => calls.write = 0)
    /\ (pc # "start" => NoneLeft)
    /\ (pc # "start" /\ calls.write = 0) =>
            fs.root # "dir" /\ \A u \in Users : fs.files[u] = NoFile

\* a run that cleaned once and then wrote the files of two users
C10_Witness ==
    /\ pc = "done"
    /\ calls.clean = 1
    /\ calls.write = 2
    /\ \A u \in DOMAIN input : fs.files[u].kind = "file"

====
